---- MODULE Spec2Model ----
(***************************************************************************)
(* Sliding-window fraud detection: flag_fraudulent_activity of             *)
(* fraud_detection_v1.2.py.  Instants are whole seconds (the resolution of *)
(* the '%Y-%m-%dT%H:%M:%S' stamps); a transaction is the split record      *)
(* i = [hash, time, amt] (i[0], i[1], i[2] of the source), its time the    *)
(* value strptime yields and its amt the value float yields; time_ok and   *)
(* amt_ok tell whether strptime and float accept the two strings or raise. *)
(***************************************************************************)
EXTENDS Integers, Sequences, FiniteSets

VARIABLES transactions, range, threshold, granularity,
          pc, window_centre, window_start, window_end,
          unique_hashes, amt_per_day, fraudulent_cards, result,
          scanned, calls

vars == <<transactions, range, threshold, granularity,
          pc, window_centre, window_start, window_end,
          unique_hashes, amt_per_day, fraudulent_cards, result,
          scanned, calls>>

inputs == <<transactions, range, threshold, granularity>>

(* ------------------------------ bounds -------------------------------- *)

\* longest record list of the general specification
MaxTrans == 2
\* longest range of the general specification, in units of six hours
MaxSpan == 4
\* the most windows one call is followed through
MaxWindows == 400
\* the most calls made one after the other
MaxCalls == 3

(* ------------------------- program constants -------------------------- *)

Hour == 3600
\* half of the 24 hour window: timedelta(seconds=3600 * 12)
HalfWindow == 43200
\* the tests' step, 3600 * 24
Day == 86400
\* d1 and d2 of the tests: 1/1/2021 and 1/1/2022, in seconds since d1
D1 == 0
D2 == 31536000

(* ------------------------------ helpers ------------------------------- *)

ToSet(s) == {s[j] : j \in 1..Len(s)}

\* Python's list(set(xs)): the distinct elements, in an order the hash
\* seed of the run decides
ListsOfSet(S) ==
    {s \in [1..Cardinality(S) -> S] : \A a, b \in 1..Cardinality(S) : (s[a] = s[b]) => (a = b)}

\* list.index(x): the first position holding x
IndexFirst(s, x) == 1
Index(s, x) == CHOOSE j \in 1..Len(s) : s[j] = x /\ \A k \in 1..(j - 1) : s[k] # x

\* fraudulent_cards = []
StaleCards(old) == old
FreshCards(old) == <<>>

\* unique_hashes = list(set([x[0] for x in transactions]))
UniqueHashesOfAllCards(trans) == ListsOfSet({"test_card_a", "test_card_b"})
UniqueHashes(trans) == ListsOfSet({trans[j].hash : j \in 1..Len(trans)})

\* window_centre += timedelta(seconds=granularity)
NextCentreDouble(centre, grain) == centre + 2 * grain
NextCentreStuck(centre, grain) == centre
NextCentre(centre, grain) == centre + grain

WindowStart(centre) == centre - HalfWindow
WindowEndOfStep(centre) == centre + granularity
WindowEnd(centre) == centre + HalfWindow

\* if window_start <= time <= window_end
InWindowExclusive(ws, time, we) == ws < time /\ time < we
InWindow(ws, time, we) == ws <= time /\ time <= we

\* amt_per_day = [0]*len(unique_hashes)
CarriedEntries(prev, uh) ==
    IF Len(prev) = Len(uh) THEN prev ELSE [j \in 1..Len(uh) |-> 0]
ZeroEntries(prev, uh) == [j \in 1..Len(uh) |-> 0]

\* the loop over the transactions: each one inside the window is added to
\* the entry of its card; strptime raises on a malformed stamp, float on a
\* malformed amount, and the exception ends the loop
RECURSIVE Accumulate(_, _, _, _, _, _)
Accumulate(trans, n, uh, ws, we, zero) ==
    IF n = 0 THEN [raised |-> FALSE, amts |-> zero]
    ELSE LET acc == Accumulate(trans, n - 1, uh, ws, we, zero)
             i == trans[n]
         IN IF acc.raised THEN acc
            ELSE IF ~i.time_ok THEN [acc EXCEPT !.raised = TRUE]
            ELSE IF InWindow(ws, i.time, we)
                 THEN IF ~i.amt_ok THEN [acc EXCEPT !.raised = TRUE]
                      ELSE [acc EXCEPT !.amts[Index(uh, i.hash)] = @ + i.amt]
                 ELSE acc

\* if amt_per_day[...] > threshold
ExceedsOrEquals(amt, thr) == amt >= thr
Below(amt, thr) == amt < thr
Exceeds(amt, thr) == amt > thr

\* the loop over unique_hashes: the cards appended to fraudulent_cards
\* by one window, in the order of unique_hashes
Flagged(uh, amts, thr) ==
    SelectSeq(uh, LAMBDA card_num : Exceeds(amts[Index(uh, card_num)], thr))

\* the centres of the windows the while loop evaluates, from centre on
RECURSIVE ScanCentres(_, _, _)
ScanCentres(centre, end, grain) ==
    IF centre < end
    THEN {NextCentre(centre, grain)} \cup ScanCentres(NextCentre(centre, grain), end, grain)
    ELSE {}

\* the cards the while loop appends to fraudulent_cards from centre on, for
\* records that all parse
RECURSIVE SequentialCards(_, _, _, _, _, _)
SequentialCards(trans, uh, centre, end, grain, thr) ==
    IF centre < end
    THEN LET c == NextCentre(centre, grain)
             acc == Accumulate(trans, Len(trans), uh, WindowStart(c), WindowEnd(c),
                               ZeroEntries(<<>>, uh))
         IN Flagged(uh, acc.amts, thr) \o SequentialCards(trans, uh, c, end, grain, thr)
    ELSE <<>>

\* unique_hashes = list(set(fraudulent_cards))
KeepDuplicates(cards) == {cards}
DropDuplicates(cards) == ListsOfSet(ToSet(cards))

(* ------------------------------ inputs -------------------------------- *)

Cards == {"test_card_a", "test_card_b"}

\* the instants of the records: the bounds of the windows centred at 12h
\* and 24h, the instants one second outside them, and 18h
Stamps ==
    {0, 12 * Hour - 1, 12 * Hour, 18 * Hour, 24 * Hour, 24 * Hour + 1}

Amounts == {1, 2}

Records == [hash : Cards, time : Stamps, amt : Amounts, time_ok : {TRUE}, amt_ok : {TRUE}]

Thresholds == {0, 2}

Grains == {6 * Hour, 12 * Hour, 24 * Hour}

TransLists == UNION {[1..n -> Records] : n \in 0..MaxTrans}

\* random_date(d1, d2): an instant of [d1, d2)
TestStamps ==
    {D1, D1 + HalfWindow - 10, D1 + HalfWindow - 1, D1 + HalfWindow,
     D1 + Day + HalfWindow - 5, D1 + Day + HalfWindow,
     D1 + 100 * Day + 3 * Hour, D2 - HalfWindow, D2 - 1}

Trans(h, t, a) == [hash |-> h, time |-> t, amt |-> a, time_ok |-> TRUE, amt_ok |-> TRUE]

\* the record lists and thresholds of the four unit tests
TestInputs ==
    {<<(<<Trans("test_card_a", t, 10)>>), 0>> : t \in TestStamps}
    \cup {<<(<<Trans("test_card_a", t, 10), Trans("test_card_b", u, 1000)>>), 500>> :
            t \in TestStamps, u \in TestStamps}
    \cup {<<(<<Trans("test_card_a", t, 10), Trans("test_card_b", u, 400)>>), 500>> :
            t \in TestStamps, u \in TestStamps}
    \cup {<<(<<Trans("test_card_a", t, 10), Trans("test_card_a", t + 10, 495)>>), 500>> :
            t \in TestStamps}

\* the arguments of the calls made one after the other
CallLists ==
    {<<>>,
     <<Trans("test_card_a", 0, 2)>>,
     <<Trans("test_card_a", 12 * Hour, 2), Trans("test_card_b", 24 * Hour + 1, 1)>>,
     <<Trans("test_card_b", 24 * Hour + 1, 1), Trans("test_card_a", 12 * Hour, 2)>>,
     <<Trans("test_card_a", 12 * Hour - 1, 1), Trans("test_card_a", 12 * Hour, 2)>>,
     <<Trans("test_card_b", 18 * Hour, 2), Trans("test_card_b", 24 * Hour, 1)>>}

CallInputs ==
    {<<l, <<0, 24 * Hour>>, t, g>> : l \in CallLists, t \in Thresholds,
                                   g \in {12 * Hour, 24 * Hour}}

\* arguments no caller is kept from passing: records whose stamp or amount
\* does not parse, ranges that are empty or inverted, steps and thresholds
\* that are zero or negative
EdgeRecords ==
    [hash : {"test_card_a"}, time : {12 * Hour, 24 * Hour + 1}, amt : {2},
     time_ok : BOOLEAN, amt_ok : BOOLEAN]

EdgeLists == UNION {[1..n -> EdgeRecords] : n \in 0..MaxTrans}

EdgeRanges ==
    {<<0, 6 * Hour>>, <<0, 24 * Hour>>, <<6 * Hour, 6 * Hour>>, <<12 * Hour, 6 * Hour>>}

EdgeGrains == {0 - 6 * Hour, 0, 6 * Hour, 24 * Hour}

EdgeThresholds == {0 - 1, 0, 2}

\* ranges and steps that do and do not divide: starts on and off the hour
\* grid, lengths of whole hours and one second more, steps of 1h to 24h
ScanRanges ==
    {<<s, s + n * Hour + d>> : s \in {0, Hour}, n \in 1..(6 * MaxSpan), d \in {0, 1}}

ScanGrains == {Hour, 5 * Hour, 6 * Hour, 24 * Hour}

ScanLists ==
    {<<>>, <<Trans("test_card_a", 12 * Hour, 2), Trans("test_card_b", 24 * Hour + 1, 1)>>}

\* the record lists of the scans whose windows run in any order
AnyOrderLists ==
    UNION {[1..n -> [hash : Cards, time : {0, 12 * Hour, 18 * Hour, 24 * Hour + 1},
                     amt : {2}, time_ok : {TRUE}, amt_ok : {TRUE}]] :
             n \in 0..MaxTrans}

(* ------------------------------ states -------------------------------- *)

Locals ==
    /\ pc = "call"
    /\ window_centre = 0
    /\ window_start = 0
    /\ window_end = 0
    /\ unique_hashes = <<>>
    /\ amt_per_day = <<>>
    /\ fraudulent_cards = <<>>
    /\ result = <<>>
    /\ scanned = <<>>
    /\ calls = <<>>

Init ==
    /\ transactions \in TransLists
    /\ range \in {<<0, 6 * Hour * n>> : n \in 1..MaxSpan}
    /\ threshold \in Thresholds
    /\ granularity \in Grains
    /\ Locals

InitTests ==
    /\ \E ti \in TestInputs : transactions = ti[1] /\ threshold = ti[2]
    /\ range = <<D1, D2>>
    /\ granularity = Day
    /\ Locals

\* lines 91-100: the empty list of flagged cards, the centre at the start of
\* the range, the distinct card hashes
Begin ==
    /\ pc = "call"
    /\ fraudulent_cards' = FreshCards(fraudulent_cards)
    /\ window_centre' = range[1]
    /\ unique_hashes' \in UniqueHashes(transactions)
    /\ pc' = "loop"
    /\ UNCHANGED <<inputs, window_start, window_end, amt_per_day, result, scanned, calls>>

\* lines 104-127: the window centred at centre is evaluated; an exception
\* of the loop over the transactions ends the call
EvaluateWindow(centre) ==
    LET acc == Accumulate(transactions, Len(transactions), unique_hashes,
                          WindowStart(centre), WindowEnd(centre),
                          ZeroEntries(amt_per_day, unique_hashes))
    IN /\ window_centre' = centre
       /\ window_start' = WindowStart(centre)
       /\ window_end' = WindowEnd(centre)
       /\ amt_per_day' = acc.amts
       /\ IF acc.raised
          THEN /\ pc' = "raised"
               /\ UNCHANGED <<fraudulent_cards, scanned>>
          ELSE /\ pc' = pc
               /\ fraudulent_cards' =
                     fraudulent_cards \o Flagged(unique_hashes, acc.amts, threshold)
               /\ scanned' = Append(scanned, centre)
       /\ UNCHANGED <<inputs, unique_hashes, result, calls>>

\* lines 102-127: one pass of the while loop
ScanWindow ==
    /\ pc = "loop"
    /\ window_centre < range[2]
    /\ Len(scanned) < MaxWindows
    /\ EvaluateWindow(NextCentre(window_centre, granularity))

\* lines 129-132: the loop is left, the duplicates are dropped
Return ==
    /\ pc = "loop"
    /\ ~(window_centre < range[2])
    /\ result' \in DropDuplicates(fraudulent_cards)
    /\ pc' = "done"
    /\ UNCHANGED <<inputs, window_centre, window_start, window_end, unique_hashes,
                   amt_per_day, fraudulent_cards, scanned, calls>>

Next == Begin \/ ScanWindow \/ Return

\* the caller notes what the call returned and calls the function again
CallAgain ==
    /\ pc = "done"
    /\ Len(calls) + 1 < MaxCalls
    /\ calls' = Append(calls, [args |-> inputs, flagged |-> ToSet(result)])
    /\ \E ci \in CallInputs :
          /\ transactions' = ci[1]
          /\ range' = ci[2]
          /\ threshold' = ci[3]
          /\ granularity' = ci[4]
    /\ pc' = "call"
    /\ scanned' = <<>>
    /\ UNCHANGED <<window_centre, window_start, window_end, unique_hashes,
                   amt_per_day, fraudulent_cards, result>>

InitEdge ==
    /\ transactions \in EdgeLists
    /\ range \in EdgeRanges
    /\ threshold \in EdgeThresholds
    /\ granularity \in EdgeGrains
    /\ Locals

InitScan ==
    /\ transactions \in ScanLists
    /\ range \in ScanRanges
    /\ threshold = 0
    /\ granularity \in ScanGrains
    /\ Locals

InitAnyOrder ==
    /\ transactions \in AnyOrderLists
    /\ range \in {<<0, 6 * Hour * n>> : n \in 1..MaxSpan}
    /\ threshold \in Thresholds
    /\ granularity \in Grains
    /\ Locals

\* the windows of the scan evaluated in any order: any window of the scan
\* not evaluated yet is the next one, and its flagged cards join the others
ScanAnyWindow ==
    /\ pc = "loop"
    /\ \E c \in ScanCentres(range[1], range[2], granularity) \ ToSet(scanned) :
          EvaluateWindow(c)

\* all windows of the scan are evaluated: the duplicates are dropped
ReturnAny ==
    /\ pc = "loop"
    /\ ScanCentres(range[1], range[2], granularity) \subseteq ToSet(scanned)
    /\ result' \in DropDuplicates(fraudulent_cards)
    /\ pc' = "done"
    /\ UNCHANGED <<inputs, window_centre, window_start, window_end, unique_hashes,
                   amt_per_day, fraudulent_cards, scanned, calls>>

NextAnyOrder == Begin \/ ScanAnyWindow \/ ReturnAny

InitCalls ==
    /\ \E ci \in CallInputs :
          /\ transactions = ci[1]
          /\ range = ci[2]
          /\ threshold = ci[3]
          /\ granularity = ci[4]
    /\ Locals

NextCalls == Begin \/ ScanWindow \/ Return \/ CallAgain

Spec == Init /\ [][Next]_vars

SpecTests == InitTests /\ [][Next]_vars

SpecEdge == InitEdge /\ [][Next]_vars

\* the call runs on one thread that nothing suspends: a step that can be
\* taken is taken
SpecLive == InitScan /\ [][Next]_vars /\ WF_vars(Next)

SpecAnyOrder == InitAnyOrder /\ [][NextAnyOrder]_vars

SpecCalls == InitCalls /\ [][NextCalls]_vars

(* ------------------------ quantities of the claims -------------------- *)

RECURSIVE SumAmt(_, _)
\* the amounts of the records at the positions J of trans, added up
SumAmt(trans, J) ==
    IF J = {} THEN 0
    ELSE LET j == CHOOSE x \in J : TRUE
         IN trans[j].amt + SumAmt(trans, J \ {j})

\* the positions of the records of card k timestamped in lo..hi
Within(k, lo, hi) ==
    {j \in 1..Len(transactions) :
        transactions[j].hash = k /\ lo <= transactions[j].time /\ transactions[j].time <= hi}

\* the sum of card k over the records with c - 12h <= timestamp <= c + 12h
EntitySum(k, c) == SumAmt(transactions, Within(k, c - HalfWindow, c + HalfWindow))

Centres == ToSet(scanned)
Keys == {transactions[j].hash : j \in 1..Len(transactions)}
Returned == ToSet(result)
Evaluated == pc = "loop" /\ scanned # <<>>

IsTestRun == range = <<D1, D2>> /\ granularity = Day
InRange(t) == D1 <= t /\ t < D2

\* C1: the result holds a key iff some scanned window centre c has the key's
\* sum over c-12h..c+12h strictly above the threshold; no other key is returned
C1_FlaggedIffSomeWindowExceeds ==
    pc = "done" =>
        /\ Returned \subseteq Keys
        /\ \A k \in Cards :
              (k \in Returned) <=> (\E c \in Centres : EntitySum(k, c) > threshold)

C1_Witness ==
    /\ pc = "done"
    /\ Len(scanned) >= 2
    /\ \E k \in Keys : k \in Returned
    /\ \E k \in Keys : k \notin Returned

\* C2: scenario A, the single record (card_a, T, 10) with T in [d1, d2),
\* threshold 0 and a step of 24h, returns exactly [card_a]
C2_ScenarioA ==
    (/\ pc = "done"
     /\ IsTestRun
     /\ threshold = 0
     /\ Len(transactions) = 1
     /\ transactions[1].hash = "test_card_a" /\ transactions[1].amt = 10
     /\ InRange(transactions[1].time))
    => result = <<"test_card_a">>

\* C3: scenario B, (card_a, T1, 10) and (card_b, T2, 1000) with T1, T2 in
\* [d1, d2), threshold 500 and a step of 24h, returns exactly [card_b]
C3_ScenarioB ==
    (/\ pc = "done"
     /\ IsTestRun
     /\ threshold = 500
     /\ Len(transactions) = 2
     /\ transactions[1].hash = "test_card_a" /\ transactions[1].amt = 10
     /\ transactions[2].hash = "test_card_b" /\ transactions[2].amt = 1000
     /\ InRange(transactions[1].time) /\ InRange(transactions[2].time))
    => result = <<"test_card_b">>

\* C4: scenario D, (card_a, T, 10) and (card_a, T+10s, 495) with T in
\* [d1, d2), threshold 500 and a step of 24h: the two amounts fall in one
\* window, add up to 505 and the call returns exactly [card_a]
C4_ScenarioD ==
    (/\ pc = "done"
     /\ IsTestRun
     /\ threshold = 500
     /\ Len(transactions) = 2
     /\ transactions[1].hash = "test_card_a" /\ transactions[1].amt = 10
     /\ transactions[2].hash = "test_card_a" /\ transactions[2].amt = 495
     /\ InRange(transactions[1].time)
     /\ transactions[2].time = transactions[1].time + 10)
    => /\ result = <<"test_card_a">>
       /\ \E c \in Centres : EntitySum("test_card_a", c) = 505

IsScenarioC ==
    /\ IsTestRun
    /\ threshold = 500
    /\ Len(transactions) = 2
    /\ transactions[1].hash = "test_card_a" /\ transactions[1].amt = 10
    /\ transactions[2].hash = "test_card_b" /\ transactions[2].amt = 400

\* C5: scenario C, (card_a, T, 10) and (card_b, T', 400) with threshold 500:
\* the amounts of the two cards are never added together and the call
\* returns the empty list, also when both records lie in one window
C5_ScenarioC ==
    /\ (Evaluated /\ IsScenarioC) =>
          \A j \in 1..Len(unique_hashes) :
              amt_per_day[j] \in {0, 10, 400} /\ ~(amt_per_day[j] > threshold)
    /\ (pc = "done" /\ IsScenarioC) => result = <<>>

C5_Witness ==
    /\ pc = "done"
    /\ IsScenarioC
    /\ result = <<>>
    /\ \E c \in Centres :
          /\ Within("test_card_a", c - HalfWindow, c + HalfWindow) # {}
          /\ Within("test_card_b", c - HalfWindow, c + HalfWindow) # {}
    /\ \E c, d \in Centres :
          /\ c # d
          /\ Within("test_card_b", c - HalfWindow, c + HalfWindow) # {}
          /\ Within("test_card_b", d - HalfWindow, d + HalfWindow) # {}

\* C6: every window the scan evaluates has its centre strictly before
\* range.end
C6_CentresBeforeEnd == \A j \in 1..Len(scanned) : scanned[j] < range[2]

\* C7: the first evaluated window is centred at range.start + step, never at
\* range.start, and each later centre is the previous one plus the step
C7_CentresAdvanceByStep ==
    \A j \in 1..Len(scanned) :
        /\ scanned[j] # range[1]
        /\ (j = 1) => (scanned[j] = range[1] + granularity)
        /\ (j > 1) => (scanned[j] = scanned[j - 1] + granularity /\ scanned[j] > scanned[j - 1])
        /\ (j = Len(scanned) /\ pc # "call") => (window_centre = scanned[j])

C7_Witness == Len(scanned) >= 3

\* C8: a record exactly at centre-12h or centre+12h of the evaluated window
\* is in the sum of its card, a record one second outside is not: a card
\* with no record strictly inside the window has the sum of its records on
\* the two bounds
C8_BoundsInclusive ==
    Evaluated =>
        \A k \in Keys :
            LET ws == window_centre - HalfWindow
                we == window_centre + HalfWindow
            IN (Within(k, ws + 1, we - 1) = {}) =>
                  amt_per_day[Index(unique_hashes, k)]
                      = SumAmt(transactions, Within(k, ws, ws) \cup Within(k, we, we))

C8_Witness ==
    /\ Evaluated
    /\ \E k \in Keys :
          LET ws == window_centre - HalfWindow
              we == window_centre + HalfWindow
          IN /\ Within(k, ws + 1, we - 1) = {}
             /\ Within(k, ws, ws) \cup Within(k, we, we) # {}
             /\ Within(k, ws - 1, ws - 1) \cup Within(k, we + 1, we + 1) # {}
             /\ amt_per_day[Index(unique_hashes, k)] > 0

\* C9: the comparison is strict: a card whose sum exceeds the threshold in
\* no scanned window, also one whose sum equals it, is not in the result
C9_StrictThreshold ==
    pc = "done" =>
        \A k \in Cards :
            (\A c \in Centres : EntitySum(k, c) <= threshold) => k \notin Returned

C9_Witness ==
    /\ pc = "done"
    /\ threshold > 0
    /\ \E k \in Keys :
          /\ \E c \in Centres : EntitySum(k, c) = threshold
          /\ \A c \in Centres : EntitySum(k, c) \in {0, threshold}
          /\ k \notin Returned

\* C10: the returned list never holds a key twice, also when the key was
\* flagged in two or more scanned windows
C10_NoDuplicates ==
    pc = "done" =>
        /\ \A a, b \in 1..Len(result) : (result[a] = result[b]) => (a = b)
        /\ Returned = ToSet(fraudulent_cards)

C10_Witness ==
    /\ pc = "done"
    /\ \E a, b \in 1..Len(fraudulent_cards) :
          /\ a # b
          /\ fraudulent_cards[a] = fraudulent_cards[b]
          /\ fraudulent_cards[a] \in Returned
    /\ \E c, d \in Centres :
          /\ c # d
          /\ \E j \in 1..Len(transactions) :
                LET k == transactions[j].hash
                IN /\ j \in Within(k, c - HalfWindow, c + HalfWindow)
                   /\ j \in Within(k, d - HalfWindow, d + HalfWindow)
                   /\ EntitySum(k, c) > threshold
                   /\ EntitySum(k, d) > threshold
                   /\ k \in Returned

\* C11: two calls with the same records, range and step and thresholds
\* t1 <= t2: the set returned for t2 is a subset of the set returned for t1
C11_ThresholdMonotone ==
    pc = "done" =>
        \A n \in 1..Len(calls) :
            LET e == calls[n]
            IN (e.args[1] = transactions /\ e.args[2] = range /\ e.args[4] = granularity) =>
                  /\ (e.args[3] <= threshold) => (Returned \subseteq e.flagged)
                  /\ (threshold <= e.args[3]) => (e.flagged \subseteq Returned)

C11_Witness ==
    /\ pc = "done"
    /\ \E n \in 1..Len(calls) :
          LET e == calls[n]
          IN /\ e.args[1] = transactions /\ e.args[2] = range /\ e.args[4] = granularity
             /\ e.args[3] < threshold
             /\ Returned \subseteq e.flagged
             /\ Returned # e.flagged

WellFormed == \A j \in 1..Len(transactions) : transactions[j].time_ok /\ transactions[j].amt_ok

\* the passes of the loop of a call that runs to its end: ceil((end - start) / step)
NumWindows ==
    IF range[1] < range[2]
    THEN (range[2] - range[1] + granularity - 1) \div granularity
    ELSE 0

\* C12: a call with step <= 0 or range.start >= range.end is rejected before
\* any window is evaluated: it neither returns a list nor scans a window
C12_InvalidConfigRejected ==
    (granularity <= 0 \/ range[1] >= range[2]) =>
        (pc # "done" /\ scanned = <<>>)

\* C13: a call with a negative threshold is rejected before any scanning: it
\* never returns a list
C13_NegativeThresholdRejected ==
    (threshold < 0) => (pc # "done" /\ scanned = <<>> /\ fraudulent_cards = <<>>)

\* C14: a call with a record whose stamp or amount is malformed ends in a
\* parse error and returns no list, wherever the record is in the list,
\* whether or not its stamp is inside a scanned window, whatever the range
C14_MalformedRecordFatal ==
    (~WellFormed) => (pc # "done" /\ scanned = <<>>)

\* C15: with an empty record list the call returns the empty list for every
\* threshold and every positive step, after scanning all windows of the range
C15_EmptyInput ==
    (transactions = <<>> /\ granularity > 0) =>
        /\ fraudulent_cards = <<>>
        /\ pc # "raised"
        /\ (pc = "done") => (result = <<>> /\ Len(scanned) = NumWindows)

C15_Witness ==
    /\ transactions = <<>>
    /\ granularity > 0
    /\ pc = "done"
    /\ threshold <= 0
    /\ Len(scanned) >= 2
    /\ result = <<>>

\* C16: for start < end and step > 0 the loop ends after exactly
\* ceil((end - start) / step) windows and the call then returns
C16_Terminates == <>(pc = "done" /\ Len(scanned) = NumWindows)

C16_Witness ==
    /\ pc = "done"
    /\ Len(scanned) = NumWindows
    /\ Len(scanned) >= 2
    /\ (range[2] - range[1]) % granularity # 0
    /\ range[1] < range[2] /\ granularity > 0

\* C17: two calls with the same records, range, threshold and step return
\* the same set, whatever calls were made before them; the list of flagged
\* cards is empty when a call starts its scan
C17_SameInputsSameResult ==
    /\ (pc = "loop" /\ scanned = <<>>) => fraudulent_cards = <<>>
    /\ (pc = "done") =>
          \A n \in 1..Len(calls) : (calls[n].args = inputs) => (calls[n].flagged = Returned)

C17_Witness ==
    /\ pc = "done"
    /\ Len(calls) >= 2
    /\ calls[1].args = inputs
    /\ calls[2].args # inputs
    /\ calls[1].flagged = Returned
    /\ calls[2].flagged \ Returned # {}
    /\ Returned # {}

\* C18: when the sums of a window are compared with the threshold,
\* amt_per_day has one entry per distinct key of the input, holding exactly
\* the sum of that key's amounts stamped inside that window, 0 when it has
\* none: nothing is carried over from earlier windows
C18_AccumulatorIsWindowSum ==
    Evaluated =>
        /\ ToSet(unique_hashes) = Keys
        /\ Len(unique_hashes) = Cardinality(Keys)
        /\ Len(amt_per_day) = Len(unique_hashes)
        /\ \A k \in Keys :
              amt_per_day[Index(unique_hashes, k)]
                  = SumAmt(transactions, Within(k, window_start, window_end))
        /\ \A k \in Keys :
              (Within(k, window_start, window_end) = {}) =>
                  amt_per_day[Index(unique_hashes, k)] = 0

C18_Witness ==
    /\ Evaluated
    /\ Len(scanned) >= 2
    /\ \E k \in Keys :
          /\ EntitySum(k, scanned[Len(scanned) - 1]) > 0
          /\ Within(k, window_start, window_end) = {}
          /\ amt_per_day[Index(unique_hashes, k)] = 0
    /\ \E k \in Keys : amt_per_day[Index(unique_hashes, k)] > 0

Overlap(j) == Within(transactions[j].hash, window_start', window_end)

\* C19: every evaluated window spans exactly centre-12h..centre+12h whatever
\* the step; for a step below 24h consecutive windows overlap on 24h - step
\* and a record stamped in the overlap is in the sums of both windows
C19_FixedWidthWindowsOverlap ==
    [][(pc = "loop" /\ pc' = "loop" /\ scanned' # scanned) =>
          /\ window_start' = window_centre' - HalfWindow
          /\ window_end' = window_centre' + HalfWindow
          /\ window_end' - window_start' = 2 * HalfWindow
          /\ (scanned # <<>> /\ granularity < 2 * HalfWindow) =>
                /\ window_start' > window_start
                /\ window_end - window_start' = 2 * HalfWindow - granularity
                /\ \A j \in 1..Len(transactions) :
                      (window_start' <= transactions[j].time /\ transactions[j].time <= window_end) =>
                          LET x == Index(unique_hashes, transactions[j].hash)
                          IN /\ amt_per_day[x] >= SumAmt(transactions, Overlap(j))
                             /\ amt_per_day'[x] >= SumAmt(transactions, Overlap(j))
                             /\ SumAmt(transactions, Overlap(j)) >= transactions[j].amt
    ]_vars

C19_Witness ==
    /\ Evaluated
    /\ Len(scanned) >= 2
    /\ granularity = 6 * Hour
    /\ window_end - window_start = 2 * HalfWindow
    /\ \E j \in 1..Len(transactions) :
          /\ window_start <= transactions[j].time
          /\ transactions[j].time <= scanned[Len(scanned) - 1] + HalfWindow
          /\ amt_per_day[Index(unique_hashes, transactions[j].hash)] >= transactions[j].amt
    /\ \E j \in 1..Len(transactions) : transactions[j].time < window_start

InOrderSet ==
    ToSet(SequentialCards(transactions, unique_hashes, range[1], range[2],
                          granularity, threshold))

\* C20: with the windows of a scan evaluated in any order, each adding its
\* flagged keys to the shared collection, the final set is the set of the
\* in-order scan
C20_AnyOrderSameSet ==
    /\ (pc = "loop") => (ToSet(fraudulent_cards) \subseteq InOrderSet)
    /\ (pc = "done") => (Returned = InOrderSet)

C20_Witness ==
    /\ pc = "done"
    /\ Len(scanned) >= 3
    /\ scanned[1] > scanned[2]
    /\ scanned[2] < scanned[3]
    /\ Cardinality(Returned) = 2
    /\ fraudulent_cards # SequentialCards(transactions, unique_hashes, range[1], range[2],
                                          granularity, threshold)
    /\ Returned = InOrderSet

(* ------------------- amounts as double-precision floats --------------- *)

\* float(i[2]) is an IEEE 754 double: 53 significant bits, sums rounded to
\* the nearest double, ties to the even one.  A double below 8 is written
\* [hi, lo], the value (hi * Limb + lo) * 2^-56, in two limbs of 28 bits.
\* The whole amounts of the specifications above are doubles that add up
\* without rounding; the amounts below have a fractional part.
Limb == 268435456

DoubleOfInt(n) == [hi |-> n * Limb, lo |-> 0]

\* float("0.10"), float("0.34"), float("0.56")
Cents10 == [hi |-> 26843545, lo |-> 161061274]
Cents34 == [hi |-> 91268055, lo |-> 10737420]
Cents56 == [hi |-> 150323855, lo |-> 96636768]

\* the bits of hi * Limb + lo beyond the 53 a double keeps
RECURSIVE DropBits(_)
DropBits(hi) == IF hi < Limb \div 8 THEN 0 ELSE 1 + DropBits(hi \div 2)

\* round to the nearest double, ties to even
RoundDouble(v) ==
    LET d == DropBits(v.hi)
        unit == 2 ^ d
        q == v.lo \div unit
        r == v.lo % unit
        up == d > 0 /\ (2 * r > unit \/ (2 * r = unit /\ q % 2 = 1))
        lo == (IF up THEN q + 1 ELSE q) * unit
    IN IF lo = Limb THEN [hi |-> v.hi + 1, lo |-> 0] ELSE [hi |-> v.hi, lo |-> lo]

\* the sum of two doubles without the rounding
ExactAdd(a, b) ==
    [hi |-> a.hi + b.hi + (a.lo + b.lo) \div Limb, lo |-> (a.lo + b.lo) % Limb]

\* amt_per_day[...] += float(i[2])
DoubleAdd(a, b) == RoundDouble(ExactAdd(a, b))

\* amt_per_day[...] > threshold, on doubles
DoubleExceeds(a, b) == a.hi > b.hi \/ (a.hi = b.hi /\ a.lo > b.lo)

(* --------------- the call on doubles, as one step --------------------- *)

\* longest record list of the calls repeated with the records reordered
MaxPermuted == 3

\* the loop over the transactions on doubles, for records that all parse
\* (first a loop that takes the records to be in the order of their stamps
\* and passes over a record stamped before an earlier one)
RECURSIVE AccumulateInOrderOnly(_, _, _, _, _, _)
AccumulateInOrderOnly(trans, n, uh, ws, we, zero) ==
    IF n = 0 THEN zero
    ELSE LET amts == AccumulateInOrderOnly(trans, n - 1, uh, ws, we, zero)
             i == trans[n]
         IN IF \E j \in 1..(n - 1) : trans[j].time > i.time THEN amts
            ELSE IF InWindow(ws, i.time, we)
                 THEN [amts EXCEPT ![Index(uh, i.hash)] = DoubleAdd(@, i.amt)]
                 ELSE amts

RECURSIVE AccumulateDouble(_, _, _, _, _, _)
AccumulateDouble(trans, n, uh, ws, we, zero) ==
    IF n = 0 THEN zero
    ELSE LET amts == AccumulateDouble(trans, n - 1, uh, ws, we, zero)
             i == trans[n]
         IN IF InWindow(ws, i.time, we)
            THEN [amts EXCEPT ![Index(uh, i.hash)] = DoubleAdd(@, i.amt)]
            ELSE amts

\* the cards one window appends to fraudulent_cards, on doubles
FlaggedDouble(uh, amts, thr) ==
    SelectSeq(uh, LAMBDA card_num : DoubleExceeds(amts[Index(uh, card_num)], thr))

\* the cards the while loop appends to fraudulent_cards from centre on
RECURSIVE CardsDouble(_, _, _, _, _, _)
CardsDouble(trans, uh, centre, end, grain, thr) ==
    IF centre < end
    THEN LET c == NextCentre(centre, grain)
             amts == AccumulateDouble(trans, Len(trans), uh, WindowStart(c), WindowEnd(c),
                                      [j \in 1..Len(uh) |-> DoubleOfInt(0)])
         IN FlaggedDouble(uh, amts, thr) \o CardsDouble(trans, uh, c, end, grain, thr)
    ELSE <<>>

\* the records of the reordered calls: three amounts of card a that add up
\* to 1 or to the next double above 1, and whole amounts of both cards
PermutedRecords ==
    [hash : {"test_card_a"}, time : {12 * Hour}, amt : {Cents10, Cents34, Cents56},
     time_ok : {TRUE}, amt_ok : {TRUE}]
    \cup [hash : Cards, time : {0, 12 * Hour}, amt : {DoubleOfInt(1)},
          time_ok : {TRUE}, amt_ok : {TRUE}]

PermutedLists == UNION {[1..n -> PermutedRecords] : n \in 0..MaxPermuted}

\* the record list s in the order p of its positions
Reordered(s, p) == [j \in 1..Len(s) |-> s[p[j]]]

Permutations(s) == {Reordered(s, p) : p \in ListsOfSet(1..Len(s))}

InitPermuted ==
    /\ transactions \in PermutedLists
    /\ range = <<0, 24 * Hour>>
    /\ threshold \in {DoubleOfInt(0), DoubleOfInt(1)}
    /\ granularity \in {12 * Hour, 24 * Hour}
    /\ Locals

\* lines 91-132 on doubles: the whole call
CallDouble ==
    /\ pc = "call"
    /\ unique_hashes' \in UniqueHashes(transactions)
    /\ fraudulent_cards' = CardsDouble(transactions, unique_hashes', range[1], range[2],
                                       granularity, threshold)
    /\ result' \in DropDuplicates(fraudulent_cards')
    /\ pc' = "done"
    /\ UNCHANGED <<inputs, window_centre, window_start, window_end, amt_per_day,
                   scanned, calls>>

\* the caller notes what the call returned and calls the function again
\* with the same records in another order
CallPermuted ==
    /\ pc = "done"
    /\ calls = <<>>
    /\ calls' = Append(calls, [args |-> inputs, flagged |-> ToSet(result)])
    /\ transactions' \in Permutations(transactions)
    /\ pc' = "call"
    /\ UNCHANGED <<range, threshold, granularity, window_centre, window_start,
                   window_end, unique_hashes, amt_per_day, fraudulent_cards,
                   result, scanned>>

NextPermuted == CallDouble \/ CallPermuted

SpecPermuted == InitPermuted /\ [][NextPermuted]_vars

\* the earlier call had the records of this call in some order, and the
\* same range, threshold and step
SameButOrder(e) ==
    /\ e.args[1] \in Permutations(transactions)
    /\ e.args[2] = range /\ e.args[3] = threshold /\ e.args[4] = granularity

\* no amount has a fractional part: every sum is a double, nothing is rounded
WholeAmounts == \A j \in 1..Len(transactions) : transactions[j].amt = DoubleOfInt(1)

\* C21 as stated: for fixed range, threshold and step every permutation of
\* the record list yields the same flagged set
C21_AnyPermutationSameSet ==
    pc = "done" =>
        \A n \in 1..Len(calls) : SameButOrder(calls[n]) => (calls[n].flagged = Returned)

\* C21, amended: for fixed range, threshold and step every permutation of a
\* record list whose amounts add up without rounding yields the same flagged
\* set, whether sorted by timestamp or not, however the cards interleave
C21_PermutationSameSetExactSums ==
    (pc = "done" /\ WholeAmounts) =>
        \A n \in 1..Len(calls) : SameButOrder(calls[n]) => (calls[n].flagged = Returned)

C21_Witness ==
    /\ pc = "done"
    /\ WholeAmounts
    /\ Len(calls) = 1
    /\ SameButOrder(calls[1])
    /\ Len(transactions) = 3
    /\ calls[1].args[1] # transactions
    /\ transactions[1].time > transactions[2].time
    /\ calls[1].args[1][1].time <= calls[1].args[1][2].time
    /\ calls[1].args[1][2].time <= calls[1].args[1][3].time
    /\ transactions[1].hash = transactions[3].hash
    /\ transactions[1].hash # transactions[2].hash
    /\ Cardinality(Returned) = 1
    /\ calls[1].flagged = Returned

(* ------------- fraud_detection_v1.0.py: the dictionary detector ------- *)

\* window_centre += datetime.timedelta(seconds=3600 * 6)
StepV10Day == 24 * Hour
StepV10 == 6 * Hour

\* the (timestamp, amount) tuples of card k, in the order of the list
ValuesOf(trans, k) ==
    LET s == SelectSeq(trans, LAMBDA i : i.hash = k)
    IN [j \in 1..Len(s) |-> [time |-> s[j].time, amt |-> s[j].amt]]

HashesOf(trans) == {trans[j].hash : j \in 1..Len(trans)}

\* the dictionary v1.0's main builds: each record appended under its key
Grouped(trans) == [k \in HashesOf(trans) |-> ValuesOf(trans, k)]

\* the dictionaries holding the records of trans: under every key the
\* tuples of that key, in any order
Dicts(trans) ==
    {dict \in [HashesOf(trans) ->
                  UNION {Permutations(ValuesOf(trans, k)) : k \in HashesOf(trans)}] :
        \A k \in HashesOf(trans) : dict[k] \in Permutations(ValuesOf(trans, k))}

\* amt_per_day = 0; for transaction in value: ... amt_per_day += transaction[1]
RECURSIVE AmtPerDayV10(_, _, _, _)
AmtPerDayV10(value, n, ws, we) ==
    IF n = 0 THEN DoubleOfInt(0)
    ELSE LET amt == AmtPerDayV10(value, n - 1, ws, we)
         IN IF InWindow(ws, value[n].time, we) THEN DoubleAdd(amt, value[n].amt) ELSE amt

\* for key, value in transactions.items(): the keys one window appends to
\* fraudulent_cards (as a set: the list is only ever read through set())
FlaggedV10(dict, ws, we, thr) ==
    {key \in DOMAIN dict :
        DoubleExceeds(AmtPerDayV10(dict[key], Len(dict[key]), ws, we), thr)}

\* the while loop of v1.0 from centre on, and list(set(fraudulent_cards))
RECURSIVE CardsV10(_, _, _, _)
CardsV10(dict, centre, end, thr) ==
    IF centre < end
    THEN LET c == centre + StepV10
         IN FlaggedV10(dict, WindowStart(c), WindowEnd(c), thr) \cup CardsV10(dict, c, end, thr)
    ELSE {}

InitVersions ==
    /\ transactions \in PermutedLists
    /\ range = <<0, 24 * Hour>>
    /\ threshold \in {DoubleOfInt(0), DoubleOfInt(1)}
    /\ granularity \in {6 * Hour, 12 * Hour}
    /\ Locals

\* v1.0 is called with a dictionary of the same records, the same range and
\* the same threshold; the caller notes what it returned
CallV10 ==
    /\ pc = "done"
    /\ calls = <<>>
    /\ \E dict \in Dicts(transactions) :
          calls' = <<[args |-> <<dict, range, threshold>>,
                      flagged |-> CardsV10(dict, range[1], range[2], threshold)]>>
    /\ UNCHANGED <<inputs, pc, window_centre, window_start, window_end, unique_hashes,
                   amt_per_day, fraudulent_cards, result, scanned>>

NextVersions == CallDouble \/ CallV10

SpecVersions == InitVersions /\ [][NextVersions]_vars

\* both detectors have returned, v1.2 was called with granularity 21600
BothReturned == pc = "done" /\ calls # <<>> /\ granularity = 6 * Hour

\* C22 as stated: for the same multiset of records, the same range and the
\* same threshold, v1.0 and v1.2 called with granularity 21600 return the
\* same flagged set
C22_VersionsSameSet == BothReturned => (calls[1].flagged = Returned)

\* C22, amended: v1.0 and v1.2 called with granularity 21600 return the same
\* flagged set when the dictionary holds each key's records in the order of
\* the list, or when the amounts add up without rounding
C22_VersionsSameSetSameOrder ==
    (BothReturned /\ (WholeAmounts \/ calls[1].args[1] = Grouped(transactions)))
        => (calls[1].flagged = Returned)

C22_Witness ==
    /\ BothReturned
    /\ ~WholeAmounts
    /\ calls[1].args[1] = Grouped(transactions)
    /\ Len(transactions) = 3
    /\ \A a, b \in 1..3 : (transactions[a].amt = transactions[b].amt) => (a = b)
    /\ threshold = DoubleOfInt(1)
    /\ Returned = {"test_card_a"}
    /\ calls[1].flagged = Returned

(* ---------------------- coverage of the range -------------------------- *)

\* ranges that start on and off the hour, one second to 6h * MaxSpan + 1s long
CoverRanges ==
    {<<s, s + 1>> : s \in {0, Hour}}
    \cup {<<s, s + 6 * Hour * n + d>> : s \in {0, Hour}, n \in 1..MaxSpan, d \in {0, 1}}

\* steps up to half a window, and the first step beyond it
CoverGrains == {Hour, 5 * Hour, HalfWindow, HalfWindow + 1}

\* instants at, next to and between the two ends of the range r
CoverStamps(r) ==
    {r[1] - 1, r[1], r[1] + 1, r[1] + (r[2] - r[1]) \div 2, r[2] - 1, r[2], r[2] + 1}

\* one record of card a, alone or before or after a record of card b
CoverLists(r) ==
    LET ra == {Trans("test_card_a", t, a) : t \in CoverStamps(r), a \in Amounts}
        rb == {Trans("test_card_b", t, 1) : t \in {r[1], r[2]}}
    IN {<<x>> : x \in ra} \cup {<<x, y>> : x \in ra, y \in rb}
       \cup {<<y, x>> : x \in ra, y \in rb}

InitCover ==
    /\ range \in CoverRanges
    /\ transactions \in CoverLists(range)
    /\ threshold \in {0, 1}
    /\ granularity \in CoverGrains
    /\ Locals

SpecCover == InitCover /\ [][Next]_vars

\* the instant t lies inside a scanned window
Covered(t) == \E c \in Centres : c - HalfWindow <= t /\ t <= c + HalfWindow

\* the scanned windows are intervals: if they leave an instant of the range
\* out, they leave out the start or the end of the range or the instant
\* right after the end of a window; the stamps of the records are added
Probes ==
    {range[1], range[2]} \cup {c + HalfWindow + 1 : c \in Centres}
    \cup {transactions[j].time : j \in 1..Len(transactions)}

InsideRange(t) == range[1] <= t /\ t <= range[2]

\* record j is the only record of its card
SingleRecord(j) == \A n \in 1..Len(transactions) :
                      (transactions[n].hash = transactions[j].hash) => (n = j)

CoverPre == range[1] < range[2] /\ 0 < granularity /\ granularity <= HalfWindow

\* C23: for start < end and 0 < step <= 12h every instant of [start, end]
\* lies inside a scanned window, and a card whose single record is stamped
\* in the range with an amount above the threshold is returned
C23_RangeCovered ==
    (pc = "done" /\ CoverPre) =>
        /\ \A t \in Probes : InsideRange(t) => Covered(t)
        /\ \A j \in 1..Len(transactions) :
              (/\ SingleRecord(j)
               /\ InsideRange(transactions[j].time)
               /\ transactions[j].amt > threshold)
              => transactions[j].hash \in Returned

C23_Witness ==
    /\ pc = "done"
    /\ CoverPre
    /\ granularity = HalfWindow
    /\ Len(scanned) >= 3
    /\ (range[2] - range[1]) % granularity # 0
    /\ Len(transactions) = 2
    /\ transactions[1].time = range[1]
    /\ transactions[2].time = range[2]
    /\ transactions[1].amt > threshold
    /\ ~(transactions[2].amt > threshold)
    /\ Returned = {transactions[1].hash}

====
